---- MODULE Spec2Model ----
(***************************************************************************)
(* Model of django_grpc_framework/management/commands/grpcrunserver.py:    *)
(* the `grpcrunserver` management command.  One command invocation is      *)
(* followed from argument parsing (add_arguments) through handle, run,     *)
(* inner_run and the coroutine _serve, together with the events the        *)
(* environment can deliver: bind/start failures raised as OSError, an      *)
(* interrupt that cancels the serving task at one of its await points, a   *)
(* failing system check, and the auto-reloader restarting the process.     *)
(***************************************************************************)
EXTENDS Integers, Sequences, FiniteSets, TLC

(* ------------------------------ bounds --------------------------------- *)

\* how many times the auto-reloader may restart the process
MaxReloads == 2

\* how many interrupts may be delivered to one serving task
MaxInterrupts == 2

(* ------------------------- program constants --------------------------- *)

EACCES == 13

EADDRINUSE == 98

EADDRNOTAVAIL == 99

DefaultMaxWorkers == 10

DefaultAddress == "[::]:50051"

\* an optional value is the empty set (Python None / argument absent) or a
\* singleton
None == {}

\* errno values an OSError may carry besides the three known ones
OtherErrnos == {12, 24}

Errnos == {EACCES, EADDRINUSE, EADDRNOTAVAIL} \cup OtherErrnos

\* addresses and worker counts that may be given on the command line
Addresses == {"127.0.0.1:80", "10.0.0.9:6000"}

WorkerCounts == {1, 4}

\* grpc_settings.SERVER_OPTIONS / SERVER_INTERCEPTORS (settings values)
SERVER_OPTIONS == "grpc_settings.SERVER_OPTIONS"

SERVER_INTERCEPTORS == "grpc_settings.SERVER_INTERCEPTORS"

(* ------------------------------ messages ------------------------------- *)

StartedMsg == "gRPC server started and listening."

ShutdownMsg == "Shutting down gRPC server..."

ChecksMsg == "Performing system checks...\n\n"

StartingMsg(address) ==
    "Starting gRPC server at " \o address \o "\n"

BannerMsg(address) ==
    "Django version, using settings\nStarting development gRPC server at "
        \o address \o "\nQuit the server with CONTROL-C.\n"

NowMsg == "now"

TracebackMsg == "Traceback (most recent call last)"

\* the ERRORS dict of inner_run
ERRORS ==
    (EACCES :> "You don't have permission to access that port.")
    @@ (EADDRINUSE :> "That port is already in use.")
    @@ (EADDRNOTAVAIL :> "That IP address can't be assigned to.")

\* str(e) of an OSError built by the operating system: "[Errno n] <text>"
StrOSError(e) ==
    "[Errno " \o ToString(e) \o "] os error"

\* ERRORS.get(e.errno, str(e))
ErrorText(e) ==
    IF e \in DOMAIN ERRORS THEN ERRORS[e] ELSE StrOSError(e)

ErrorLine(e) ==
    "Error: " \o ErrorText(e)

(* ------------------------------- state --------------------------------- *)

VARIABLES
    argv,              \* the command line: optional address, --max-workers, --dev
    options,           \* the parsed options (add_arguments applied to argv)
    self,              \* the attributes handle() stores on the command
    hasRunWithReloader,\* hasattr(autoreload, "run_with_reloader")
    pc,                \* position of the command (handle/run/inner_run)
    servePc,           \* position of the coroutine _serve
    srv,               \* the server object of the current process
    serversTotal,      \* servers constructed so far, over all processes
    exc,               \* the exception _serve ended with, if any
    cancelAt,          \* await points at which this task was cancelled
    reloads,           \* restarts performed by the auto-reloader
    stdout,            \* what the current process wrote to stdout
    stderr,            \* what the current process wrote to stderr
    exitStatus,        \* None while running, else {status}
    reloaderEntry,     \* which autoreload entry point run() called
    directServe,       \* run() awaited _serve itself
    innerRuns,         \* invocations of inner_run
    raiseLastCalls,    \* calls of raise_last_exception in this inner_run
    checkCalls,        \* completed self.check() in this inner_run
    migrationCalls,    \* completed check_migrations() in this inner_run
    pendingException   \* the reloader holds an exception to re-raise

vars ==
    << argv, options, self, hasRunWithReloader, pc, servePc, srv,
       serversTotal, exc, cancelAt, reloads, stdout, stderr, exitStatus,
       reloaderEntry, directServe, innerRuns, raiseLastCalls, checkCalls,
       migrationCalls, pendingException >>

cmdVars ==
    << argv, options, self, hasRunWithReloader >>

histVars ==
    << reloaderEntry, directServe, innerRuns, raiseLastCalls, checkCalls,
       migrationCalls, pendingException >>

NoExc == [type |-> "none", errno |-> 0]

OSError(e) == [type |-> "OSError", errno |-> e]

CancelledError == [type |-> "CancelledError", errno |-> 0]

NoServer ==
    [exists |-> FALSE, id |-> 0, options |-> "", interceptors |-> "",
     max_workers |-> None, hookCalls |-> 0, bindCalls |-> 0,
     boundAddr |-> None, startCalls |-> 0, started |-> FALSE,
     stopGraces |-> << >>]

\* how often stop was called on a server
StopCalls(s) == Len(s.stopGraces)

\* grpc.aio.server(options=..., interceptors=...): a new server object; no
\* thread pool or worker count is handed over
NewServer(id) ==
    [NoServer EXCEPT !.exists = TRUE, !.id = id,
                     !.options = SERVER_OPTIONS,
                     !.interceptors = SERVER_INTERCEPTORS]

ArgvSet ==
    [address : {None} \cup {{a} : a \in Addresses},
     max_workers : {None} \cup {{w} : w \in WorkerCounts},
     dev : BOOLEAN]

\* the value of an optional argument, or its default
OrDefault(opt, default) ==
    IF opt = None THEN default ELSE CHOOSE v \in opt : TRUE

\* add_arguments: address (nargs='?', default '[::]:50051'),
\* --max-workers (int, default 10), --dev (store_true)
ParseArgs(a) ==
    [address |-> OrDefault(a.address, DefaultAddress),
     max_workers |-> OrDefault(a.max_workers, DefaultMaxWorkers),
     development_mode |-> a.dev]

Unset == [address |-> None, max_workers |-> None, development_mode |-> None]

Init ==
    /\ argv \in ArgvSet
    /\ options = ParseArgs(argv)
    /\ self = Unset
    /\ hasRunWithReloader \in BOOLEAN
    /\ pc = "handle"
    /\ servePc = "idle"
    /\ srv = NoServer
    /\ serversTotal = 0
    /\ exc = NoExc
    /\ cancelAt = << >>
    /\ reloads = 0
    /\ stdout = << >>
    /\ stderr = << >>
    /\ exitStatus = None
    /\ reloaderEntry = "none"
    /\ directServe = FALSE
    /\ innerRuns = 0
    /\ raiseLastCalls = 0
    /\ checkCalls = 0
    /\ migrationCalls = 0
    /\ pendingException = FALSE

SelfAddress == OrDefault(self.address, "")

DevMode == self.development_mode = {TRUE}

(* ----------------------------- handle, run ----------------------------- *)

\* handle: store the three options, then asyncio.run(self.run(**options))
Handle ==
    /\ pc = "handle"
    /\ self' = [address |-> {options.address},
                max_workers |-> {options.max_workers},
                development_mode |-> {options.development_mode}]
    /\ pc' = "run"
    /\ UNCHANGED << argv, options, hasRunWithReloader, servePc, srv,
                    serversTotal, exc, cancelAt, reloads, stdout, stderr,
                    exitStatus >>
    /\ UNCHANGED histVars

\* run, development mode: hand inner_run to the auto-reloader, which calls it
RunDev ==
    /\ pc = "run"
    /\ DevMode
    /\ reloaderEntry' =
          IF hasRunWithReloader THEN "run_with_reloader" ELSE "main"
    /\ innerRuns' = innerRuns + 1
    /\ pendingException' \in BOOLEAN
    /\ pc' = "inner_raise_last"
    /\ UNCHANGED << servePc, srv, serversTotal, exc, cancelAt, reloads,
                    stdout, stderr, exitStatus, directServe, raiseLastCalls,
                    checkCalls, migrationCalls >>
    /\ UNCHANGED cmdVars

\* RunDirect taken whatever the mode: the `else` lost
RunDirect_always ==
    /\ pc = "run"
    /\ stdout' = Append(stdout, StartingMsg(SelfAddress))
    /\ directServe' = TRUE
    /\ servePc' = "create"
    /\ pc' = "serve_direct"
    /\ UNCHANGED << srv, serversTotal, exc, cancelAt, reloads, stderr,
                    exitStatus, reloaderEntry, innerRuns, raiseLastCalls,
                    checkCalls, migrationCalls, pendingException >>
    /\ UNCHANGED cmdVars

\* run, otherwise: write the starting line and await self._serve()
RunDirect ==
    /\ pc = "run"
    /\ ~DevMode
    /\ stdout' = Append(stdout, StartingMsg(SelfAddress))
    /\ directServe' = TRUE
    /\ servePc' = "create"
    /\ pc' = "serve_direct"
    /\ UNCHANGED << srv, serversTotal, exc, cancelAt, reloads, stderr,
                    exitStatus, reloaderEntry, innerRuns, raiseLastCalls,
                    checkCalls, migrationCalls, pendingException >>
    /\ UNCHANGED cmdVars

Run ==
    RunDev \/ RunDirect

(* ------------------------------ inner_run ------------------------------ *)

\* autoreload.raise_last_exception(): re-raises the exception the reloader
\* holds; inner_run then ends before any check
InnerRaiseLast ==
    /\ pc = "inner_raise_last"
    /\ raiseLastCalls' = raiseLastCalls + 1
    /\ pc' = IF pendingException THEN "inner_failed" ELSE "inner_check"
    /\ UNCHANGED << servePc, srv, serversTotal, exc, cancelAt, reloads,
                    stdout, stderr, exitStatus, reloaderEntry, directServe,
                    innerRuns, checkCalls, migrationCalls, pendingException >>
    /\ UNCHANGED cmdVars

\* InnerCheck with the result of the check ignored: inner_run goes on to the
\* migration check whether or not the system checks passed
InnerCheck_ignoreFailure ==
    /\ pc = "inner_check"
    /\ stdout' = Append(stdout, ChecksMsg)
    /\ \E ok \in BOOLEAN :
          /\ checkCalls' = IF ok THEN checkCalls + 1 ELSE checkCalls
          /\ pc' = "inner_migrations"
    /\ UNCHANGED << servePc, srv, serversTotal, exc, cancelAt, reloads,
                    stderr, exitStatus, reloaderEntry, directServe,
                    innerRuns, raiseLastCalls, migrationCalls,
                    pendingException >>
    /\ UNCHANGED cmdVars

\* write the checks line and run self.check(display_num_errors=True); a
\* failing check raises and ends inner_run
InnerCheck ==
    /\ pc = "inner_check"
    /\ stdout' = Append(stdout, ChecksMsg)
    /\ \E ok \in BOOLEAN :
          IF ok
          THEN /\ checkCalls' = checkCalls + 1
               /\ pc' = "inner_migrations"
          ELSE /\ checkCalls' = checkCalls
               /\ pc' = "inner_failed"
    /\ UNCHANGED << servePc, srv, serversTotal, exc, cancelAt, reloads,
                    stderr, exitStatus, reloaderEntry, directServe,
                    innerRuns, raiseLastCalls, migrationCalls,
                    pendingException >>
    /\ UNCHANGED cmdVars

\* self.check_migrations()
InnerCheckMigrations ==
    /\ pc = "inner_migrations"
    /\ migrationCalls' = migrationCalls + 1
    /\ pc' = "inner_banner"
    /\ UNCHANGED << servePc, srv, serversTotal, exc, cancelAt, reloads,
                    stdout, stderr, exitStatus, reloaderEntry, directServe,
                    innerRuns, raiseLastCalls, checkCalls, pendingException >>
    /\ UNCHANGED cmdVars

\* write the time and the banner, then enter asyncio.run(self._serve())
InnerBanner ==
    /\ pc = "inner_banner"
    /\ stdout' = stdout \o << NowMsg, BannerMsg(SelfAddress) >>
    /\ servePc' = "create"
    /\ pc' = "inner_serve"
    /\ UNCHANGED << srv, serversTotal, exc, cancelAt, reloads, stderr,
                    exitStatus >>
    /\ UNCHANGED histVars
    /\ UNCHANGED cmdVars

(* ------------------------------- _serve -------------------------------- *)

Serving == pc \in {"inner_serve", "serve_direct"}

\* server = grpc.aio.server(options=..., interceptors=...)
ServeCreate ==
    /\ Serving
    /\ servePc = "create"
    /\ serversTotal' = serversTotal + 1
    /\ srv' = NewServer(serversTotal + 1)
    /\ servePc' = "hook"
    /\ UNCHANGED << pc, exc, cancelAt, reloads, stdout, stderr, exitStatus >>
    /\ UNCHANGED histVars
    /\ UNCHANGED cmdVars

\* ServeHook with the bind forgotten: the hook is followed by the status line
\* and the start
ServeHook_skipBind ==
    /\ Serving
    /\ servePc = "hook"
    /\ srv' = [srv EXCEPT !.hookCalls = @ + 1]
    /\ servePc' = "write"
    /\ UNCHANGED << pc, serversTotal, exc, cancelAt, reloads, stdout, stderr,
                    exitStatus >>
    /\ UNCHANGED histVars
    /\ UNCHANGED cmdVars

\* grpc_settings.ROOT_HANDLERS_HOOK(server)
ServeHook ==
    /\ Serving
    /\ servePc = "hook"
    /\ srv' = [srv EXCEPT !.hookCalls = @ + 1]
    /\ servePc' = "bind"
    /\ UNCHANGED << pc, serversTotal, exc, cancelAt, reloads, stdout, stderr,
                    exitStatus >>
    /\ UNCHANGED histVars
    /\ UNCHANGED cmdVars

\* server.add_insecure_port(self.address): binds, or raises an OSError
ServeBind ==
    /\ Serving
    /\ servePc = "bind"
    /\ \/ /\ srv' = [srv EXCEPT !.bindCalls = @ + 1,
                                !.boundAddr = {SelfAddress}]
          /\ servePc' = "write"
          /\ exc' = exc
       \/ \E e \in Errnos :
             /\ srv' = [srv EXCEPT !.bindCalls = @ + 1]
             /\ servePc' = "raised"
             /\ exc' = OSError(e)
    /\ UNCHANGED << pc, serversTotal, cancelAt, reloads, stdout, stderr,
                    exitStatus >>
    /\ UNCHANGED histVars
    /\ UNCHANGED cmdVars

\* self.stdout.write("gRPC server started and listening.")
ServeWrite ==
    /\ Serving
    /\ servePc = "write"
    /\ stdout' = Append(stdout, StartedMsg)
    /\ servePc' = "start"
    /\ UNCHANGED << pc, srv, serversTotal, exc, cancelAt, reloads, stderr,
                    exitStatus >>
    /\ UNCHANGED histVars
    /\ UNCHANGED cmdVars

\* await server.start(): the call is made and the coroutine suspends
ServeStart ==
    /\ Serving
    /\ servePc = "start"
    /\ srv' = [srv EXCEPT !.startCalls = @ + 1]
    /\ servePc' = "starting"
    /\ UNCHANGED << pc, serversTotal, exc, cancelAt, reloads, stdout, stderr,
                    exitStatus >>
    /\ UNCHANGED histVars
    /\ UNCHANGED cmdVars

\* server.start() completes and the coroutine enters the try block, awaiting
\* server.wait_for_termination(); or start raises an OSError
ServeStartDone ==
    /\ Serving
    /\ servePc = "starting"
    /\ \/ /\ srv' = [srv EXCEPT !.started = TRUE]
          /\ servePc' = "wait"
          /\ exc' = exc
       \/ \E e \in Errnos :
             /\ srv' = srv
             /\ servePc' = "raised"
             /\ exc' = OSError(e)
    /\ UNCHANGED << pc, serversTotal, cancelAt, reloads, stdout, stderr,
                    exitStatus >>
    /\ UNCHANGED histVars
    /\ UNCHANGED cmdVars

\* wait_for_termination() returns: _serve falls off the try block and returns
ServeWaitReturn ==
    /\ Serving
    /\ servePc = "wait"
    /\ servePc' = "returned"
    /\ UNCHANGED << pc, srv, serversTotal, exc, cancelAt, reloads, stdout,
                    stderr, exitStatus >>
    /\ UNCHANGED histVars
    /\ UNCHANGED cmdVars

\* the task is cancelled while awaiting server.start(): the await is outside
\* the try block, so CancelledError leaves _serve
CancelInStart ==
    /\ Serving
    /\ servePc = "starting"
    /\ Len(cancelAt) < MaxInterrupts
    /\ cancelAt' = Append(cancelAt, "start")
    /\ exc' = CancelledError
    /\ servePc' = "raised"
    /\ UNCHANGED << pc, srv, serversTotal, reloads, stdout, stderr,
                    exitStatus >>
    /\ UNCHANGED histVars
    /\ UNCHANGED cmdVars

\* CancelInWait with a graceful stop: server.stop(grace=0)
CancelInWait_grace ==
    /\ Serving
    /\ servePc = "wait"
    /\ Len(cancelAt) < MaxInterrupts
    /\ cancelAt' = Append(cancelAt, "wait")
    /\ stdout' = Append(stdout, ShutdownMsg)
    /\ srv' = [srv EXCEPT !.stopGraces = Append(@, {0})]
    /\ servePc' = "stopping"
    /\ UNCHANGED << pc, serversTotal, exc, reloads, stderr, exitStatus >>
    /\ UNCHANGED histVars
    /\ UNCHANGED cmdVars

\* the task is cancelled while awaiting wait_for_termination(): the except
\* clause writes the shutdown line and awaits server.stop(grace=None)
CancelInWait ==
    /\ Serving
    /\ servePc = "wait"
    /\ Len(cancelAt) < MaxInterrupts
    /\ cancelAt' = Append(cancelAt, "wait")
    /\ stdout' = Append(stdout, ShutdownMsg)
    /\ srv' = [srv EXCEPT !.stopGraces = Append(@, None)]
    /\ servePc' = "stopping"
    /\ UNCHANGED << pc, serversTotal, exc, reloads, stderr, exitStatus >>
    /\ UNCHANGED histVars
    /\ UNCHANGED cmdVars

\* server.stop() completes: _serve returns
ServeStopDone ==
    /\ Serving
    /\ servePc = "stopping"
    /\ srv' = [srv EXCEPT !.started = FALSE]
    /\ servePc' = "returned"
    /\ UNCHANGED << pc, serversTotal, exc, cancelAt, reloads, stdout, stderr,
                    exitStatus >>
    /\ UNCHANGED histVars
    /\ UNCHANGED cmdVars

\* the task is cancelled again while awaiting server.stop() inside the except
\* clause: nothing catches it there
CancelInStop ==
    /\ Serving
    /\ servePc = "stopping"
    /\ Len(cancelAt) < MaxInterrupts
    /\ cancelAt' = Append(cancelAt, "stop")
    /\ exc' = CancelledError
    /\ servePc' = "raised"
    /\ UNCHANGED << pc, srv, serversTotal, reloads, stdout, stderr,
                    exitStatus >>
    /\ UNCHANGED histVars
    /\ UNCHANGED cmdVars

(* ------------------- what asyncio.run hands back ----------------------- *)

ServeEnded == servePc \in {"returned", "raised"}

\* inner_run: asyncio.run(self._serve()) returned, so inner_run returns
InnerRunReturn ==
    /\ pc = "inner_serve"
    /\ servePc = "returned"
    /\ pc' = "inner_returned"
    /\ UNCHANGED << servePc, srv, serversTotal, exc, cancelAt, reloads,
                    stdout, stderr, exitStatus >>
    /\ UNCHANGED histVars
    /\ UNCHANGED cmdVars

\* InnerRunOSError that serves again instead of leaving the process
InnerRunOSError_retry ==
    /\ pc = "inner_serve"
    /\ servePc = "raised"
    /\ exc.type = "OSError"
    /\ stderr' = Append(stderr, ErrorLine(exc.errno))
    /\ servePc' = "create"
    /\ exc' = NoExc
    /\ UNCHANGED << pc, srv, serversTotal, cancelAt, reloads, stdout,
                    exitStatus >>
    /\ UNCHANGED histVars
    /\ UNCHANGED cmdVars

\* InnerRunOSError that leaves with status 0 for an errno it does not know
InnerRunOSError_exit0 ==
    /\ pc = "inner_serve"
    /\ servePc = "raised"
    /\ exc.type = "OSError"
    /\ stderr' = Append(stderr, ErrorLine(exc.errno))
    /\ exitStatus' = IF exc.errno \in DOMAIN ERRORS THEN {1} ELSE {0}
    /\ pc' = "exited"
    /\ UNCHANGED << servePc, srv, serversTotal, exc, cancelAt, reloads,
                    stdout >>
    /\ UNCHANGED histVars
    /\ UNCHANGED cmdVars

\* inner_run, except OSError: look the errno up in ERRORS, write the error
\* line to stderr, os._exit(1)
InnerRunOSError ==
    /\ pc = "inner_serve"
    /\ servePc = "raised"
    /\ exc.type = "OSError"
    /\ stderr' = Append(stderr, ErrorLine(exc.errno))
    /\ exitStatus' = {1}
    /\ pc' = "exited"
    /\ UNCHANGED << servePc, srv, serversTotal, exc, cancelAt, reloads,
                    stdout >>
    /\ UNCHANGED histVars
    /\ UNCHANGED cmdVars

\* inner_run, except KeyboardInterrupt (what asyncio.run raises when the
\* interrupted task ends cancelled): sys.exit(0)
InnerRunKeyboardInterrupt ==
    /\ pc = "inner_serve"
    /\ servePc = "raised"
    /\ exc.type = "CancelledError"
    /\ exitStatus' = {0}
    /\ pc' = "exited"
    /\ UNCHANGED << servePc, srv, serversTotal, exc, cancelAt, reloads,
                    stdout, stderr >>
    /\ UNCHANGED histVars
    /\ UNCHANGED cmdVars

\* run without development mode: `await self._serve()` stands in no try
\* block, so whatever _serve raises leaves run, handle and the command; the
\* interpreter prints a traceback and ends with a failure status
RunServeDone ==
    /\ pc = "serve_direct"
    /\ ServeEnded
    /\ IF servePc = "returned"
       THEN /\ exitStatus' = {0}
            /\ stderr' = stderr
       ELSE /\ exitStatus' = IF exc.type = "OSError" THEN {1} ELSE {130}
            /\ stderr' = Append(stderr, TracebackMsg)
    /\ pc' = "exited"
    /\ UNCHANGED << servePc, srv, serversTotal, exc, cancelAt, reloads,
                    stdout >>
    /\ UNCHANGED histVars
    /\ UNCHANGED cmdVars

(* ---------------------------- auto-reloader ---------------------------- *)

InnerPcs ==
    {"inner_raise_last", "inner_check", "inner_migrations", "inner_banner",
     "inner_serve", "inner_failed", "inner_returned"}

\* a source file changed: the reloader ends the process and starts a new one,
\* which calls inner_run again; nothing of the old process survives
Reload ==
    /\ pc \in InnerPcs
    /\ reloads < MaxReloads
    /\ reloads' = reloads + 1
    /\ innerRuns' = innerRuns + 1
    /\ pendingException' \in BOOLEAN
    /\ pc' = "inner_raise_last"
    /\ servePc' = "idle"
    /\ srv' = NoServer
    /\ exc' = NoExc
    /\ cancelAt' = << >>
    /\ stdout' = << >>
    /\ stderr' = << >>
    /\ raiseLastCalls' = 0
    /\ checkCalls' = 0
    /\ migrationCalls' = 0
    /\ UNCHANGED << serversTotal, exitStatus, reloaderEntry, directServe >>
    /\ UNCHANGED cmdVars

Next ==
    \/ Handle
    \/ Run
    \/ InnerRaiseLast
    \/ InnerCheck
    \/ InnerCheckMigrations
    \/ InnerBanner
    \/ ServeCreate
    \/ ServeHook
    \/ ServeBind
    \/ ServeWrite
    \/ ServeStart
    \/ ServeStartDone
    \/ ServeWaitReturn
    \/ CancelInStart
    \/ CancelInWait
    \/ ServeStopDone
    \/ CancelInStop
    \/ InnerRunReturn
    \/ InnerRunOSError
    \/ InnerRunKeyboardInterrupt
    \/ RunServeDone
    \/ Reload

Spec == Init /\ [][Next]_vars

TypeOK ==
    /\ argv \in ArgvSet
    /\ pc \in {"handle", "run", "serve_direct", "exited"} \cup InnerPcs
    /\ servePc \in {"idle", "create", "hook", "bind", "write", "start",
                    "starting", "wait", "stopping", "returned", "raised"}
    /\ reloads \in 0..MaxReloads
    /\ Len(cancelAt) <= MaxInterrupts
    /\ exitStatus \in {None, {0}, {1}, {130}}

(* ------------------------------ properties ----------------------------- *)

Wrote(out, msg) == \E i \in 1..Len(out) : out[i] = msg

\* C1: the startup sequence runs in one fixed order, each step once, on a
\* server constructed by this run of _serve with the configured options and
\* interceptors: construct, register handlers, bind the address of the command
\* line (default '[::]:50051'), start.  No server is started before its
\* handlers are registered and its port is bound, none is bound or started
\* twice, and a run of _serve constructs one server.
C1_StartupOrder ==
    /\ serversTotal <= (IF directServe THEN 1 ELSE innerRuns)
    /\ servePc \in {"idle", "create"} => ~srv.exists
    /\ servePc = "hook" => srv = NewServer(serversTotal)
    /\ srv.exists =>
          /\ srv.id = serversTotal
          /\ srv.options = SERVER_OPTIONS
          /\ srv.interceptors = SERVER_INTERCEPTORS
          /\ srv.hookCalls <= 1 /\ srv.bindCalls <= 1 /\ srv.startCalls <= 1
          /\ srv.bindCalls = 1 => srv.hookCalls = 1
          /\ srv.boundAddr # None =>
                /\ srv.bindCalls = 1
                /\ srv.boundAddr =
                      (IF argv.address = None THEN {"[::]:50051"}
                                              ELSE argv.address)
          /\ srv.startCalls = 1 =>
                srv.hookCalls = 1 /\ srv.bindCalls = 1 /\ srv.boundAddr # None
          /\ srv.started => srv.startCalls = 1
    /\ servePc \in {"starting", "wait", "stopping"} =>
          srv.hookCalls = 1 /\ srv.bindCalls = 1 /\ srv.startCalls = 1

C1_Witness ==
    /\ servePc = "wait"
    /\ srv.started
    /\ srv.boundAddr = {"[::]:50051"}

\* C2: a cancellation that arrives while _serve awaits wait_for_termination
\* makes it call stop on the server once, with grace None, and the cancellation
\* is swallowed: _serve is awaiting stop or has returned, with no exception.
\* Without a cancellation stop is never called.
C2_CancelInWaitStopsOnce ==
    /\ cancelAt = << >> => srv.stopGraces = << >>
    /\ (cancelAt # << >> /\ Head(cancelAt) = "wait") =>
          /\ srv.stopGraces = << None >>
          /\ Len(cancelAt) = 1 =>
                servePc \in {"stopping", "returned"} /\ exc = NoExc

C2_Witness ==
    /\ cancelAt = << "wait" >>
    /\ servePc = "returned"
    /\ StopCalls(srv) = 1

\* C3: a bind failure raised as OSError with EACCES, EADDRINUSE or
\* EADDRNOTAVAIL ends the command with the mapped message on stderr and a
\* non-zero status, in development mode or not.
C3_BindFailureReported ==
    (/\ pc = "exited"
     /\ exc.type = "OSError"
     /\ exc.errno \in {EACCES, EADDRINUSE, EADDRNOTAVAIL}
     /\ srv.startCalls = 0)
    => /\ stderr = << "Error: " \o ERRORS[exc.errno] >>
       /\ exitStatus \notin {None, {0}}

\* C4: in development mode every invocation of inner_run first re-raises the
\* reloader's pending exception, then runs the system checks, then the
\* migration check, and only then lets _serve construct a server.
C4_ChecksBeforeServer ==
    options.development_mode =>
       /\ raiseLastCalls <= 1 /\ checkCalls <= 1 /\ migrationCalls <= 1
       /\ pc \in (InnerPcs \ {"inner_raise_last"}) => raiseLastCalls = 1
       /\ (pendingException /\ raiseLastCalls = 1) =>
             pc = "inner_failed" /\ checkCalls = 0
       /\ checkCalls = 1 => raiseLastCalls = 1 /\ ~pendingException
       /\ migrationCalls = 1 => checkCalls = 1
       /\ (srv.exists \/ servePc # "idle") =>
             raiseLastCalls = 1 /\ checkCalls = 1 /\ migrationCalls = 1

C4_Witness ==
    /\ reloads >= 1
    /\ srv.started
    /\ checkCalls = 1
    /\ migrationCalls = 1

\* C5: once _serve has failed with an OSError in inner_run, the next step of
\* that process is its exit: the server is not touched again (no bind, start
\* or stop), no server is constructed, and an exited process does nothing.
C5_NoRetryAfterOSError ==
    [][ /\ (/\ pc = "inner_serve"
            /\ servePc = "raised"
            /\ exc.type = "OSError"
            /\ reloads' = reloads)
           => /\ StopCalls(srv) = 0
              /\ pc' = "exited"
              /\ exitStatus' # None
              /\ srv' = srv
              /\ serversTotal' = serversTotal
        /\ pc = "exited"
           => pc' = "exited" /\ srv' = srv /\ serversTotal' = serversTotal
      ]_vars

C5_Witness ==
    /\ pc = "exited"
    /\ innerRuns > 0
    /\ exc.type = "OSError"
    /\ srv.bindCalls = 1
    /\ srv.startCalls = 0
    /\ StopCalls(srv) = 0

\* C6: the server is constructed with the worker count of the command line
\* (--max-workers, default 10) as its maximum number of worker threads.
C6_MaxWorkersPassed ==
    srv.exists =>
       srv.max_workers =
          (IF argv.max_workers = None THEN {10} ELSE argv.max_workers)

\* C7: one invocation takes one path.  Without development mode run serves
\* itself and the reloader, the system checks and the migration check are
\* never invoked; with it run never serves itself and a server exists only
\* inside an inner_run called by the reloader.
C7_ModesExclusive ==
    /\ ~(directServe /\ (reloaderEntry # "none" \/ innerRuns > 0))
    /\ ~options.development_mode =>
          /\ reloaderEntry = "none"
          /\ innerRuns = 0
          /\ raiseLastCalls = 0 /\ checkCalls = 0 /\ migrationCalls = 0
          /\ ~Wrote(stdout, ChecksMsg)
          /\ servePc # "idle" => directServe
    /\ options.development_mode =>
          /\ ~directServe
          /\ pc # "serve_direct"
          /\ servePc # "idle" =>
                /\ reloaderEntry # "none"
                /\ innerRuns >= 1
                /\ pc \in {"inner_serve", "inner_returned", "exited"}

C7_Witness ==
    /\ options.development_mode
    /\ reloaderEntry = "run_with_reloader"
    /\ srv.started

\* C8: in inner_run an OSError ends the process with status 1 after one line
\* 'Error: <text>' on stderr, <text> being the mapped message for the three
\* known codes and str(e) otherwise; a KeyboardInterrupt ends it with status 0
\* and nothing on stderr.  An OSError never gives status 0.
C8_InnerRunExitStatus ==
    (pc = "exited" /\ innerRuns > 0) =>
       /\ exc.type = "OSError" =>
             /\ exitStatus = {1}
             /\ stderr =
                  << "Error: " \o
                     (CASE exc.errno = EACCES ->
                             "You don't have permission to access that port."
                        [] exc.errno = EADDRINUSE ->
                             "That port is already in use."
                        [] exc.errno = EADDRNOTAVAIL ->
                             "That IP address can't be assigned to."
                        [] OTHER -> StrOSError(exc.errno)) >>
       /\ exc.type = "CancelledError" =>
             exitStatus = {0} /\ stderr = << >>
       /\ exitStatus = {0} => exc.type = "CancelledError"

C8_Witness ==
    /\ pc = "exited"
    /\ innerRuns > 0
    /\ exc.type = "OSError"
    /\ exc.errno \in OtherErrnos
    /\ exitStatus = {1}

\* C9: a task cancelled at any await point of _serve after start was called on
\* its server has had stop called on that server by the time _serve ends.
C9_CancelAlwaysStops ==
    (/\ ServeEnded
     /\ srv.startCalls >= 1
     /\ cancelAt # << >>)
    => StopCalls(srv) >= 1

\* C10: the line 'gRPC server started and listening.' is on stdout only once
\* start has completed on the server; it is absent when bind or start failed.
C10_StartedMsgAfterStart ==
    Wrote(stdout, StartedMsg) =>
       /\ srv.startCalls = 1
       /\ srv.started \/ StopCalls(srv) = 1
       /\ exc.type # "OSError"

====
